---- MODULE Spec2Model ----
(***************************************************************************)
(* A model of the crawl engine of src/src/main/ScrapeRunner.js:            *)
(*   - ScrapeRunner: start(), stop(), the advance-queue cycle              *)
(*     (advanceQueue / waitForPage / examinePage / loadNextPage /          *)
(*     rateLimit) as a chain of promise callbacks, one action per callback *)
(*     or external event;                                                  *)
(*   - Tab.installIpcServer: the polling request/response loop.            *)
(* URLs are sequences of naturals so that String.startsWith is a real      *)
(* prefix test.                                                            *)
(***************************************************************************)
EXTENDS Naturals, Integers, Sequences, FiniteSets, TLC

VARIABLES
    activeTab,      \* app.activeTab is present
    config,         \* ScrapeConfig: [firstPage, dryRun]
    site,           \* the site crawled: in-scope page -> the links it lists
    status,         \* ScrapeStatus: [state, pagesVisited, pagesRemaining]
    allKnownPages,  \* ScrapeRunner.allKnownPages
    queue,          \* ScrapeRunner.queue
    stopping,       \* ScrapeRunner.stopping
    notifyStopped,  \* ScrapeRunner.notifyStopped is set
    tokens,         \* balance of ScrapeRunner.limiter
    timer,          \* time left on the setTimeout of delay()
    tab,            \* the tab's webContents: [url, loading, target]
    recording,      \* recording session: "off", "starting", "on", "finishing"
    pc,             \* position of the promise chain of start()
    nextUrl,        \* nextUrl captured by loadNextPage
    stopPending,    \* stop() promises whose then-callback has not run yet
    stopInCycle,    \* some stop() call came while the cycle was in flight
    stopInWait,     \* some stop() call came while waiting for a page load
    stopResolved,   \* number of stop() completions resolved
    otherTakes,     \* tokens taken by other consumers of the bucket
    takes,          \* successful limiter.takeTokens(1) calls of rateLimit
    loaded,         \* log of tab.loadURL calls made by loadNextPage
    firstLoads,     \* number of tab.loadURL(firstPage) calls made by start()
    examined,       \* log of the URLs examinePage looked at
    pushed,         \* log of the URLs pushed onto the queue
    recStartCalls,  \* calls of app.startRecordingSession
    recFinishCalls, \* calls of app.finishRecordingSession
    redirects,      \* number of loads that settled on another URL
    evalFailed,     \* some executeJavaScript of examinePage rejected
    startFailed,    \* start() threw or its promise rejected
    ipcHandler,     \* Tab.ipcHandler is set
    page,           \* the document in the tab's webContents: [gen, client, sent]
    loops,          \* one record per installIpcServer call
    delivered,      \* the responses the page-side ipcClient received
    activePage,     \* Tab.activePage: 0 for null, else an index of trackers
    trackers,       \* the PageTracker objects constructed so far
    promises,       \* the page-id promises: [done, url, waiters]
    collectionDone, \* recordingSession.collectionId has resolved
    collectionWaiters, \* then-callbacks registered on collectionId
    microtasks,     \* then-callbacks ready to run, in order
    inArchive,      \* promises whose upsertPage call awaits the archive
    archiveCalls,   \* log of the archive.upsertPage / setPageTitle calls
    pageEvents      \* number of in-page navigation and title events so far

crawlVars == <<activeTab, config, site, status, allKnownPages, queue, stopping,
               notifyStopped, tokens, timer, tab, recording, pc, nextUrl,
               stopPending, stopInCycle, stopInWait, stopResolved, otherTakes,
               takes, loaded, firstLoads, examined, pushed, recStartCalls,
               recFinishCalls, redirects, evalFailed, startFailed>>

\* set at construction, never assigned afterwards
configVars == <<activeTab, config, site>>

ipcVars == <<ipcHandler, page, loops, delivered>>

\* the PageTracker objects and their promises
pageVars == <<trackers, promises, collectionDone, collectionWaiters,
              microtasks, inArchive, archiveCalls, pageEvents>>

trackVars == <<activePage, pageVars>>

\* the Tab's own state
tabVars == <<ipcVars, trackVars>>

vars == <<crawlVars, ipcVars, trackVars>>

-----------------------------------------------------------------------------
(* Bounds *)
MaxStops == 1
MaxOtherTakes == 1
MaxRedirects == 1
MaxDomReady == 2
MaxReq == 2
MaxTrackers == 2
MaxPageEvents == 2

(* URLs *)
PageA == <<1, 1, 1>>
PageB == <<1, 1, 2>>
PageC == <<3, 1>>
PageS == <<1, 2, 1>>
PageX == <<2, 1>>
AllPagesUrl == <<0, 0>>
NoUrl == <<>>

Pages == {PageA, PageB, PageC, PageS, PageX}

RootUrls == << <<1, 1>>, <<3>> >>

Capacity == 10

StartsWith(url, root) ==
    /\ Len(root) <= Len(url)
    /\ SubSeq(url, 1, Len(root)) = root

KnownRoot(url) == \E i \in 1..Len(RootUrls) : StartsWith(url, RootUrls[i])

InScopePages == {p \in Pages : KnownRoot(p)}

LinkLists == { <<>>,
               <<PageB, PageX>>,
               <<PageB, PageC, PageB>>,
               <<PageA, PageS>> }

\* PageC is a leaf that links back to the start of the site
Sites == {s \in [InScopePages -> LinkLists] : s[PageC] = <<PageA, PageS>>}

\* where a redirected load may settle: out of scope, or in scope
RedirectTargets == {PageS, PageC}

-----------------------------------------------------------------------------
(* TokenBucket, in units of one refill period (60 / ppmLimit seconds) *)
DelayForTokens(n) == IF tokens >= n THEN 0 ELSE n - tokens
HasTokens(n) == tokens >= n
TakeTokens(n) == IF tokens >= n THEN tokens - n ELSE 0

-----------------------------------------------------------------------------
(* report(): pagesRemaining is recomputed from the queue *)
Report(st, q) == [st EXCEPT !.pagesRemaining = Len(q)]

\* mutant: the root-prefix filter of examinePage is dropped
FilterRoots_None(allLinks) == allLinks

FilterRoots(allLinks) == SelectSeq(allLinks, KnownRoot)

\* mutant: the forEach over the new links stops after its first element
EnqueueLinks_FirstOnly(links, known, q, log) ==
    IF links = <<>> \/ Head(links) \in known
    THEN [known |-> known, queue |-> q, log |-> log]
    ELSE [known |-> known \cup {Head(links)},
          queue |-> Append(q, Head(links)),
          log |-> Append(log, Head(links))]

\* mutant: a pushed link is not added to allKnownPages
RECURSIVE EnqueueLinks_NoAdd(_, _, _, _)
EnqueueLinks_NoAdd(links, known, q, log) ==
    IF links = <<>> THEN [known |-> known, queue |-> q, log |-> log]
    ELSE LET link == Head(links) IN
         IF link \notin known
         THEN EnqueueLinks_NoAdd(Tail(links), known, Append(q, link),
                                 Append(log, link))
         ELSE EnqueueLinks_NoAdd(Tail(links), known, q, log)

RECURSIVE EnqueueLinks(_, _, _, _)
EnqueueLinks(links, known, q, log) ==
    IF links = <<>> THEN [known |-> known, queue |-> q, log |-> log]
    ELSE LET link == Head(links) IN
         IF link \notin known
         THEN EnqueueLinks(Tail(links), known \cup {link}, Append(q, link),
                           Append(log, link))
         ELSE EnqueueLinks(Tail(links), known, q, log)

LoadURL(t, url) == [t EXCEPT !.loading = TRUE, !.target = url]

\* The top of advanceQueue followed by waitForPage: where the chain goes next.
AdvanceQueueTop(t) ==
    IF stopping THEN "finishRec"
    ELSE IF t.loading THEN "waitPage" ELSE "examine"

\* The then-callback of stop() is a microtask: it runs before the event loop
\* delivers the next event (load, timer, evaluation result, session change).
MicrotasksDrained == stopPending = 0

\* Positions inside the advance-queue cycle, past its stopping check.
CyclePcs == {"waitPage", "examine", "evalWait", "loadNext", "rateDelay",
             "navigate"}

-----------------------------------------------------------------------------
(* Tab.installIpcServer: the polling loop.  Request(gen, n) is the n-th call  *)
(* produced by the ipcClient of document gen.                                *)
Null == [kind |-> "null"]

Request(gen, n) == [kind |-> "call", gen |-> gen, n |-> n]

DataResponse(request) ==
    [kind |-> "data", req |-> request, payload |-> "result"]

ErrorResponse(request, error) ==
    [kind |-> "error", req |-> request, payload |-> error]

\* installIpcServer up to its first advanceQueue(null)
\* (dispatched: the calls of this.ipcHandler; outcome and gotNull record what
\* happened to each request received and whether null was received)
NewLoop == [inFlight |-> <<Null>>, pending |-> {}, evals |-> <<Null>>,
            handled |-> <<>>, dispatched |-> <<>>, outcome |-> <<>>,
            gotNull |-> FALSE]

\* advanceQueue(arg): one more executeJavaScript is in flight
IssueAdvanceQueue(loop, arg) ==
    [loop EXCEPT !.evals = Append(@, arg), !.inFlight = Append(@, arg)]

\* mutant: the next advanceQueue is issued when the handler is called, not
\* when it settles
HandleIpcRequest_NoWait(loop, request, handler) ==
    IF request = Null THEN loop
    ELSE LET got == [loop EXCEPT !.handled = Append(@, request)]
         IN IF ~handler
            THEN IssueAdvanceQueue(got, ErrorResponse(request, "no IPC handler"))
            ELSE IssueAdvanceQueue([got EXCEPT !.pending = @ \cup {request},
                                               !.dispatched = Append(@, request)],
                                   DataResponse(request))

\* mutant: a null request does not shut the channel down, the loop polls again
HandleIpcRequest_PollsOnNull(loop, request, handler) ==
    IF request = Null THEN IssueAdvanceQueue(loop, Null)
    ELSE LET got == [loop EXCEPT !.handled = Append(@, request)]
         IN IF ~handler
            THEN IssueAdvanceQueue(got, ErrorResponse(request, "no IPC handler"))
            ELSE [got EXCEPT !.pending = @ \cup {request},
                             !.dispatched = Append(@, request)]

\* mutant: a request that finds no handler is dropped without a response
HandleIpcRequest_Drops(loop, request, handler) ==
    IF request = Null THEN loop
    ELSE LET got == [loop EXCEPT !.handled = Append(@, request)]
         IN IF ~handler
            THEN got
            ELSE [got EXCEPT !.pending = @ \cup {request},
                             !.dispatched = Append(@, request)]

\* handleIpcRequest(request) up to the call of the handler
HandleIpcRequest(loop, request, handler) ==
    IF request = Null THEN loop
    ELSE LET got == [loop EXCEPT !.handled = Append(@, request)]
         IN IF ~handler
            THEN IssueAdvanceQueue(got, ErrorResponse(request, "no IPC handler"))
            ELSE [got EXCEPT !.pending = @ \cup {request},
                             !.dispatched = Append(@, request)]

RECURSIVE TotalHandled(_)
TotalHandled(ls) ==
    IF ls = <<>> THEN 0 ELSE Len(Head(ls).handled) + TotalHandled(Tail(ls))

\* what window.ipcClient.advanceQueue can return: the next call, or null
PageAnswers ==
    {Null} \cup (IF page.client /\ TotalHandled(loops) < MaxReq
                 THEN {Request(page.gen, page.sent + 1)} ELSE {})

-----------------------------------------------------------------------------
Init ==
    /\ activeTab \in BOOLEAN
    /\ config \in [firstPage : {PageA, PageS}, dryRun : BOOLEAN]
    /\ site \in Sites
    /\ status = [state |-> "initialized", pagesVisited |-> 0,
                 pagesRemaining |-> 1]
    /\ allKnownPages = {}
    /\ queue = <<>>
    /\ stopping = FALSE
    /\ notifyStopped = FALSE
    /\ tokens \in {0, Capacity}
    /\ timer = 0
    /\ tab \in [url : {PageA, PageX}, loading : {FALSE}, target : {NoUrl}]
    /\ recording \in {"off", "on"}
    /\ pc = "init"
    /\ nextUrl = NoUrl
    /\ stopPending = 0
    /\ stopInCycle = FALSE
    /\ stopInWait = FALSE
    /\ stopResolved = 0
    /\ otherTakes = 0
    /\ takes = 0
    /\ loaded = <<>>
    /\ firstLoads = 0
    /\ examined = <<>>
    /\ pushed = <<>>
    /\ recStartCalls = 0
    /\ recFinishCalls = 0
    /\ redirects = 0
    /\ evalFailed = FALSE
    /\ startFailed = FALSE
    /\ ipcHandler = FALSE
    /\ page = [gen |-> 0, client |-> FALSE, sent |-> 0]
    /\ loops = <<>>
    /\ delivered = {}
    /\ activePage = 0
    /\ trackers = <<>>
    /\ promises = <<>>
    /\ collectionDone = FALSE
    /\ collectionWaiters = <<>>
    /\ microtasks = <<>>
    /\ inArchive = {}
    /\ archiveCalls = <<>>
    /\ pageEvents = 0

-----------------------------------------------------------------------------
\* mutant: start() sets state = "running" before it tests activeTab
Start_RunsFirst ==
    /\ pc = "init"
    /\ ~startFailed
    /\ IF ~activeTab
       THEN /\ startFailed' = TRUE
            /\ status' = [status EXCEPT !.state = "running"]
            /\ UNCHANGED pc
       ELSE /\ status' = [status EXCEPT !.state = "running"]
            /\ pc' = "loadFirst"
            /\ UNCHANGED startFailed
    /\ UNCHANGED <<tabVars, configVars, takes, evalFailed, redirects,
                   allKnownPages, queue, stopping, notifyStopped, tokens,
                   timer, tab, recording, nextUrl, stopPending, stopInCycle,
                   stopInWait, stopResolved, otherTakes, loaded, firstLoads,
                   examined, pushed, recStartCalls, recFinishCalls>>

(* ScrapeRunner.start: the synchronous part *)
Start ==
    /\ pc = "init"
    /\ ~startFailed
    /\ IF ~activeTab
       THEN /\ startFailed' = TRUE
            /\ UNCHANGED <<status, pc>>
       ELSE /\ status' = [status EXCEPT !.state = "running"]
            /\ pc' = "loadFirst"
            /\ UNCHANGED startFailed
    /\ UNCHANGED <<tabVars, configVars, takes, evalFailed, redirects,
                   allKnownPages, queue, stopping, notifyStopped, tokens,
                   timer, tab, recording, nextUrl, stopPending, stopInCycle,
                   stopInWait, stopResolved, otherTakes, loaded, firstLoads,
                   examined, pushed, recStartCalls, recFinishCalls>>

(* start: first then-callback, load firstPage unless the tab is there *)
LoadFirstPage ==
    /\ pc = "loadFirst"
    /\ IF tab.url # config.firstPage
       THEN /\ tab' = LoadURL(tab, config.firstPage)
            /\ activePage' = 0
            /\ firstLoads' = firstLoads + 1
       ELSE UNCHANGED <<tab, activePage, firstLoads>>
    /\ pc' = "ensureRec"
    /\ UNCHANGED <<ipcVars, pageVars, configVars, takes, evalFailed,
                   redirects, status, allKnownPages, queue, stopping,
                   notifyStopped, tokens, timer, recording, nextUrl,
                   stopPending, stopInCycle, stopInWait, stopResolved,
                   otherTakes, loaded, examined, pushed, recStartCalls,
                   recFinishCalls, startFailed>>

\* mutant: start() does not wait for startRecordingSession() to resolve
EnsureRecording_NoWait ==
    /\ pc = "ensureRec"
    /\ IF config.dryRun \/ recording = "on"
       THEN UNCHANGED <<recording, recStartCalls>>
       ELSE /\ recording' = "starting"
            /\ recStartCalls' = recStartCalls + 1
    /\ pc' = "advance"
    /\ UNCHANGED <<tabVars, configVars, takes, evalFailed, redirects, status,
                   allKnownPages, queue, stopping, notifyStopped, tokens,
                   timer, tab, nextUrl, stopPending, stopInCycle, stopInWait,
                   stopResolved, otherTakes, loaded, firstLoads, examined,
                   pushed, recFinishCalls, startFailed>>

(* start: second then-callback, start a recording session if needed *)
EnsureRecording ==
    /\ pc = "ensureRec"
    /\ IF config.dryRun \/ recording = "on"
       THEN /\ pc' = "advance"
            /\ UNCHANGED <<recording, recStartCalls>>
       ELSE /\ recording' = "starting"
            /\ recStartCalls' = recStartCalls + 1
            /\ pc' = "recStarting"
    /\ UNCHANGED <<tabVars, configVars, takes, evalFailed, redirects, status,
                   allKnownPages, queue, stopping, notifyStopped, tokens,
                   timer, tab, nextUrl, stopPending, stopInCycle, stopInWait,
                   stopResolved, otherTakes, loaded, firstLoads, examined,
                   pushed, recFinishCalls, startFailed>>

(* app.startRecordingSession() resolves *)
RecordingStarted ==
    /\ MicrotasksDrained
    /\ pc = "recStarting"
    /\ recording' = "on"
    /\ pc' = "advance"
    /\ UNCHANGED <<tabVars, configVars, takes, evalFailed, redirects, status,
                   allKnownPages, queue, stopping, notifyStopped, tokens,
                   timer, tab, nextUrl, stopPending, stopInCycle, stopInWait,
                   stopResolved, otherTakes, loaded, firstLoads, examined,
                   pushed, recStartCalls, recFinishCalls, startFailed>>

(* start: third then-callback, the first advanceQueue(activeTab) *)
AdvanceQueue ==
    /\ pc = "advance"
    /\ pc' = AdvanceQueueTop(tab)
    /\ UNCHANGED <<tabVars, configVars, takes, evalFailed, redirects, status,
                   allKnownPages, queue, stopping, notifyStopped, tokens,
                   timer, tab, recording, nextUrl, stopPending, stopInCycle,
                   stopInWait, stopResolved, otherTakes, loaded, firstLoads,
                   examined, pushed, recStartCalls, recFinishCalls,
                   startFailed>>

(* webContents emits did-stop-loading with the tab at URL final *)
DidStopLoading(final) ==
    /\ MicrotasksDrained
    /\ tab.loading
    /\ redirects' = IF final = tab.target THEN redirects ELSE redirects + 1
    /\ tab' = [url |-> final, loading |-> FALSE, target |-> NoUrl]
    /\ pc' = IF pc = "waitPage" THEN "examine" ELSE pc
    /\ UNCHANGED <<tabVars, configVars, takes, evalFailed, status,
                   allKnownPages, queue, stopping, notifyStopped, tokens,
                   timer, recording, nextUrl, stopPending, stopInCycle,
                   stopInWait, stopResolved, otherTakes, loaded, firstLoads,
                   examined, pushed, recStartCalls, recFinishCalls,
                   startFailed>>

LoadSettles == DidStopLoading(tab.target)

LoadRedirects ==
    /\ redirects < MaxRedirects
    /\ \E final \in RedirectTargets \ {tab.target} : DidStopLoading(final)

(* waitForPage: the setInterval callback reports while the page loads *)
IntervalReport ==
    /\ MicrotasksDrained
    /\ pc = "waitPage"
    /\ status' = Report(status, queue)
    /\ UNCHANGED <<tabVars, configVars, takes, evalFailed, redirects,
                   allKnownPages, queue, stopping, notifyStopped, tokens,
                   timer, tab, recording, pc, nextUrl, stopPending,
                   stopInCycle, stopInWait, stopResolved, otherTakes, loaded,
                   firstLoads, examined, pushed, recStartCalls,
                   recFinishCalls, startFailed>>

\* mutant: examinePage adds the URL to allKnownPages before the root test
ExaminePage_AddsAlways ==
    /\ pc = "examine"
    /\ status' = Report([status EXCEPT !.pagesVisited = @ + 1], queue)
    /\ examined' = Append(examined, tab.url)
    /\ IF ~KnownRoot(tab.url)
       THEN /\ pc' = "loadNext"
            /\ allKnownPages' = allKnownPages \cup {tab.url}
       ELSE /\ allKnownPages' = allKnownPages \cup {tab.url}
            /\ pc' = "evalWait"
    /\ UNCHANGED <<tabVars, configVars, takes, evalFailed, redirects, queue,
                   stopping, notifyStopped, tokens, timer, tab, recording,
                   nextUrl, stopPending, stopInCycle, stopInWait,
                   stopResolved, otherTakes, loaded, firstLoads, pushed,
                   recStartCalls, recFinishCalls, startFailed>>

(* examinePage up to the call of executeJavaScript *)
ExaminePage ==
    /\ pc = "examine"
    /\ status' = Report([status EXCEPT !.pagesVisited = @ + 1], queue)
    /\ examined' = Append(examined, tab.url)
    /\ IF ~KnownRoot(tab.url)
       THEN /\ pc' = "loadNext"
            /\ UNCHANGED allKnownPages
       ELSE /\ allKnownPages' = allKnownPages \cup {tab.url}
            /\ pc' = "evalWait"
    /\ UNCHANGED <<tabVars, configVars, takes, evalFailed, redirects, queue,
                   stopping, notifyStopped, tokens, timer, tab, recording,
                   nextUrl, stopPending, stopInCycle, stopInWait,
                   stopResolved, otherTakes, loaded, firstLoads, pushed,
                   recStartCalls, recFinishCalls, startFailed>>

(* examinePage: executeJavaScript resolves with the links of the page *)
EvalResolves ==
    /\ MicrotasksDrained
    /\ pc = "evalWait"
    /\ LET r == EnqueueLinks(FilterRoots(site[tab.url]), allKnownPages, queue,
                             pushed)
       IN /\ allKnownPages' = r.known
          /\ queue' = r.queue
          /\ pushed' = r.log
    /\ pc' = "loadNext"
    /\ UNCHANGED <<tabVars, configVars, takes, evalFailed, redirects, status,
                   stopping, notifyStopped, tokens, timer, tab, recording,
                   nextUrl, stopPending, stopInCycle, stopInWait,
                   stopResolved, otherTakes, loaded, firstLoads, examined,
                   recStartCalls, recFinishCalls, startFailed>>

(* examinePage: executeJavaScript rejects; no handler on the chain catches it *)
EvalRejects ==
    /\ MicrotasksDrained
    /\ pc = "evalWait"
    /\ pc' = "rejected"
    /\ startFailed' = TRUE
    /\ evalFailed' = TRUE
    /\ UNCHANGED <<tabVars, configVars, takes, redirects, status,
                   allKnownPages, queue, stopping, notifyStopped, tokens,
                   timer, tab, recording, nextUrl, stopPending, stopInCycle,
                   stopInWait, stopResolved, otherTakes, loaded, firstLoads,
                   examined, pushed, recStartCalls, recFinishCalls>>

(* loadNextPage up to the call of rateLimit() *)
LoadNextPage ==
    /\ pc = "loadNext"
    /\ IF queue = <<>>
       THEN /\ status' = Report([status EXCEPT !.state = "finished"], queue)
            /\ pc' = "finishRec"
            /\ UNCHANGED <<queue, nextUrl, timer>>
       ELSE /\ nextUrl' = Head(queue)
            /\ queue' = Tail(queue)
            /\ timer' = DelayForTokens(1)
            /\ pc' = "rateDelay"
            /\ UNCHANGED status
    /\ UNCHANGED <<tabVars, configVars, takes, evalFailed, redirects,
                   allKnownPages, stopping, notifyStopped, tokens, tab,
                   recording, stopPending, stopInCycle, stopInWait,
                   stopResolved, otherTakes, loaded, firstLoads, examined,
                   pushed, recStartCalls, recFinishCalls, startFailed>>

(* one refill period passes while the timer of delay() runs *)
Tick ==
    /\ MicrotasksDrained
    /\ timer > 0
    /\ tokens' = IF tokens < Capacity THEN tokens + 1 ELSE tokens
    /\ timer' = IF timer > 0 THEN timer - 1 ELSE 0
    /\ UNCHANGED <<tabVars, configVars, takes, evalFailed, redirects, status,
                   allKnownPages, queue, stopping, notifyStopped, tab,
                   recording, pc, nextUrl, stopPending, stopInCycle,
                   stopInWait, stopResolved, otherTakes, loaded, firstLoads,
                   examined, pushed, recStartCalls, recFinishCalls,
                   startFailed>>

(* another consumer of the bucket takes a token *)
OtherTake ==
    /\ MicrotasksDrained
    /\ otherTakes < MaxOtherTakes
    /\ HasTokens(1)
    /\ tokens' = TakeTokens(1)
    /\ otherTakes' = otherTakes + 1
    /\ UNCHANGED <<tabVars, configVars, takes, evalFailed, redirects, status,
                   allKnownPages, queue, stopping, notifyStopped, timer, tab,
                   recording, pc, nextUrl, stopPending, stopInCycle,
                   stopInWait, stopResolved, loaded, firstLoads, examined,
                   pushed, recStartCalls, recFinishCalls, startFailed>>

\* mutant: rateLimit takes after the delay without testing hasTokens(1)
RateLimitWake_NoRecheck ==
    /\ MicrotasksDrained
    /\ pc = "rateDelay"
    /\ timer = 0
    /\ tokens' = TakeTokens(1)
    /\ takes' = IF HasTokens(1) THEN takes + 1 ELSE takes
    /\ pc' = "navigate"
    /\ UNCHANGED timer
    /\ UNCHANGED <<tabVars, configVars, evalFailed, redirects, status,
                   allKnownPages, queue, stopping, notifyStopped, tab,
                   recording, nextUrl, stopPending, stopInCycle, stopInWait,
                   stopResolved, otherTakes, loaded, firstLoads, examined,
                   pushed, recStartCalls, recFinishCalls, startFailed>>

(* rateLimit: the callback after delay() *)
RateLimitWake ==
    /\ MicrotasksDrained
    /\ pc = "rateDelay"
    /\ timer = 0
    /\ IF ~HasTokens(1)
       THEN /\ timer' = DelayForTokens(1)
            /\ UNCHANGED <<tokens, pc, takes>>
       ELSE /\ tokens' = TakeTokens(1)
            /\ takes' = takes + 1
            /\ pc' = "navigate"
            /\ UNCHANGED timer
    /\ UNCHANGED <<tabVars, configVars, evalFailed, redirects, status,
                   allKnownPages, queue, stopping, notifyStopped, tab,
                   recording, nextUrl, stopPending, stopInCycle, stopInWait,
                   stopResolved, otherTakes, loaded, firstLoads, examined,
                   pushed, recStartCalls, recFinishCalls, startFailed>>

(* loadNextPage: the callback after rateLimit(): loadURL, then advanceQueue *)
NavigateNext ==
    /\ pc = "navigate"
    /\ tab' = LoadURL(tab, nextUrl)
    /\ activePage' = 0
    /\ loaded' = Append(loaded, nextUrl)
    /\ pc' = AdvanceQueueTop(tab')
    /\ UNCHANGED <<ipcVars, pageVars, configVars, takes, evalFailed,
                   redirects, status, allKnownPages, queue, stopping,
                   notifyStopped, tokens, timer, recording, nextUrl,
                   stopPending, stopInCycle, stopInWait, stopResolved,
                   otherTakes, firstLoads, examined, pushed, recStartCalls,
                   recFinishCalls, startFailed>>

\* mutant: start() ends the recording session without testing dryRun
FinishRecording_Always ==
    /\ pc = "finishRec"
    /\ recording' = "finishing"
    /\ recFinishCalls' = recFinishCalls + 1
    /\ pc' = "recFinishing"
    /\ UNCHANGED <<tabVars, configVars, takes, evalFailed, redirects, status,
                   allKnownPages, queue, stopping, notifyStopped, tokens,
                   timer, tab, nextUrl, stopPending, stopInCycle, stopInWait,
                   stopResolved, otherTakes, loaded, firstLoads, examined,
                   pushed, recStartCalls, startFailed>>

(* start: fourth then-callback, end the recording session *)
FinishRecording ==
    /\ pc = "finishRec"
    /\ IF ~config.dryRun
       THEN /\ recording' = "finishing"
            /\ recFinishCalls' = recFinishCalls + 1
            /\ pc' = "recFinishing"
       ELSE /\ pc' = "final"
            /\ UNCHANGED <<recording, recFinishCalls>>
    /\ UNCHANGED <<tabVars, configVars, takes, evalFailed, redirects, status,
                   allKnownPages, queue, stopping, notifyStopped, tokens,
                   timer, tab, nextUrl, stopPending, stopInCycle, stopInWait,
                   stopResolved, otherTakes, loaded, firstLoads, examined,
                   pushed, recStartCalls, startFailed>>

(* app.finishRecordingSession() resolves *)
RecordingFinished ==
    /\ MicrotasksDrained
    /\ pc = "recFinishing"
    /\ recording' = "off"
    /\ pc' = "final"
    /\ UNCHANGED <<tabVars, configVars, takes, evalFailed, redirects, status,
                   allKnownPages, queue, stopping, notifyStopped, tokens,
                   timer, tab, nextUrl, stopPending, stopInCycle, stopInWait,
                   stopResolved, otherTakes, loaded, firstLoads, examined,
                   pushed, recStartCalls, recFinishCalls, startFailed>>

(* start: last then-callback, show the overview of all pages *)
FinalNavigate ==
    /\ pc = "final"
    /\ IF stopping \/ ~activeTab
       THEN UNCHANGED <<tab, activePage>>
       ELSE /\ tab' = LoadURL(tab, AllPagesUrl)
            /\ activePage' = 0
    /\ pc' = "done"
    /\ UNCHANGED <<ipcVars, pageVars, configVars, takes, evalFailed,
                   redirects, status, allKnownPages, queue, stopping,
                   notifyStopped, tokens, timer, recording, nextUrl,
                   stopPending, stopInCycle, stopInWait, stopResolved,
                   otherTakes, loaded, firstLoads, examined, pushed,
                   recStartCalls, recFinishCalls, startFailed>>

(* ScrapeRunner.stop: the synchronous part.  Promise.resolve(fn) resolves     *)
(* with the function as its value and never calls it, so notifyStopped stays  *)
(* unset and the then-callback is queued at once.                             *)
StopCall ==
    /\ stopPending + stopResolved < MaxStops
    /\ stopping' = TRUE
    /\ stopPending' = stopPending + 1
    /\ stopInCycle' = (stopInCycle \/ pc \in CyclePcs)
    /\ stopInWait' = (stopInWait \/ pc = "waitPage")
    /\ UNCHANGED <<tabVars, configVars, takes, evalFailed, redirects, status,
                   allKnownPages, queue, notifyStopped, tokens, timer, tab,
                   recording, pc, nextUrl, stopResolved, otherTakes, loaded,
                   firstLoads, examined, pushed, recStartCalls,
                   recFinishCalls, startFailed>>

(* stop: the then-callback *)
StopThen ==
    /\ stopPending > 0
    /\ status' = Report([status EXCEPT !.state = "canceled"], queue)
    /\ stopPending' = stopPending - 1
    /\ stopResolved' = stopResolved + 1
    /\ UNCHANGED <<tabVars, configVars, takes, evalFailed, redirects,
                   allKnownPages, queue, stopping, notifyStopped, tokens,
                   timer, tab, recording, pc, nextUrl, stopInCycle,
                   stopInWait, otherTakes, loaded, firstLoads, examined,
                   pushed, recStartCalls, recFinishCalls, startFailed>>

-----------------------------------------------------------------------------
Next ==
    \/ Start
    \/ LoadFirstPage
    \/ EnsureRecording
    \/ RecordingStarted
    \/ AdvanceQueue
    \/ LoadSettles
    \/ LoadRedirects
    \/ IntervalReport
    \/ ExaminePage
    \/ EvalResolves
    \/ EvalRejects
    \/ LoadNextPage
    \/ Tick
    \/ OtherTake
    \/ RateLimitWake
    \/ NavigateNext
    \/ FinishRecording
    \/ RecordingFinished
    \/ FinalNavigate
    \/ StopCall
    \/ StopThen

Spec == Init /\ [][Next]_vars

-----------------------------------------------------------------------------
(* A run on a well-behaved site: the tab exists, firstPage is in scope, no   *)
(* load is redirected, every evaluation resolves and stop() is never called. *)
(* The event loop runs every ready callback and every awaited event arrives. *)
LiveInit ==
    /\ Init
    /\ activeTab
    /\ KnownRoot(config.firstPage)

LiveNext ==
    \/ Start
    \/ LoadFirstPage
    \/ EnsureRecording
    \/ RecordingStarted
    \/ AdvanceQueue
    \/ LoadSettles
    \/ IntervalReport
    \/ ExaminePage
    \/ EvalResolves
    \/ LoadNextPage
    \/ Tick
    \/ OtherTake
    \/ RateLimitWake
    \/ NavigateNext
    \/ FinishRecording
    \/ RecordingFinished
    \/ FinalNavigate

LiveSpec == LiveInit /\ [][LiveNext]_vars /\ WF_vars(LiveNext)

-----------------------------------------------------------------------------
(* Tab.handleDomReady: a new document is ready; on a content-root URL the    *)
(* polling loop is installed                                                 *)
HandleDomReady(isContent) ==
    /\ page.gen < MaxDomReady
    /\ page' = [gen |-> page.gen + 1, client |-> isContent, sent |-> 0]
    /\ loops' = IF isContent THEN Append(loops, NewLoop) ELSE loops
    /\ UNCHANGED <<crawlVars, trackVars, ipcHandler, delivered>>

DomReadyContent == HandleDomReady(TRUE)

DomReadyOther == HandleDomReady(FALSE)

(* Tab.setIpcHandler *)
SetIpcHandler ==
    /\ ipcHandler' = ~ipcHandler
    /\ UNCHANGED <<crawlVars, trackVars, page, loops, delivered>>

(* an executeJavaScript of advanceQueue resolves: the page takes the         *)
(* response it carried and answers with its next call or null                *)
EvalReturns ==
    \E l \in 1..Len(loops) : \E answer \in PageAnswers :
        /\ loops[l].inFlight # <<>>
        /\ LET arg == Head(loops[l].inFlight)
               rest == [loops[l] EXCEPT !.inFlight = Tail(@)]
           IN /\ delivered' =
                    IF page.client /\ arg # Null
                    THEN delivered \cup {[to |-> page.gen, resp |-> arg]}
                    ELSE delivered
              /\ loops' = [loops EXCEPT ![l] =
                    [HandleIpcRequest(rest, answer, ipcHandler) EXCEPT
                       !.gotNull = @ \/ answer = Null,
                       !.outcome = IF answer = Null THEN @
                                   ELSE Append(@, IF ipcHandler THEN "pending"
                                                  ELSE "none")]]
        /\ page' = IF answer = Null THEN page
                   ELSE [page EXCEPT !.sent = @ + 1]
        /\ UNCHANGED <<crawlVars, trackVars, ipcHandler>>

(* the promise of this.ipcHandler(request) settles: advanceQueue({data}) or  *)
(* advanceQueue({error})                                                     *)
HandlerSettles ==
    \E l \in 1..Len(loops) : \E request \in loops[l].pending :
      \E ok \in BOOLEAN :
        /\ loops' = [loops EXCEPT ![l] =
              IssueAdvanceQueue(
                [@ EXCEPT !.pending = @ \ {request},
                          !.outcome = [i \in DOMAIN @ |->
                                         IF loops[l].handled[i] = request
                                         THEN (IF ok THEN "ok" ELSE "fail")
                                         ELSE @[i]]],
                IF ok THEN DataResponse(request)
                ELSE ErrorResponse(request, "failure"))]
        /\ UNCHANGED <<crawlVars, trackVars, ipcHandler, page, delivered>>

(* an executeJavaScript of advanceQueue rejects: nothing on the chain        *)
(* catches it and the loop issues nothing more                               *)
EvalFails ==
    \E l \in 1..Len(loops) :
        /\ loops[l].inFlight # <<>>
        /\ loops' = [loops EXCEPT ![l].inFlight = Tail(@)]
        /\ UNCHANGED <<crawlVars, trackVars, ipcHandler, page, delivered>>

IpcInit ==
    /\ Init
    /\ activeTab
    /\ config = [firstPage |-> PageA, dryRun |-> FALSE]
    /\ site = [p \in InScopePages |-> <<PageA, PageS>>]
    /\ tokens = Capacity
    /\ tab.url = PageA
    /\ recording = "off"

IpcNext ==
    \/ DomReadyContent
    \/ DomReadyOther
    \/ SetIpcHandler
    \/ EvalReturns
    \/ HandlerSettles
    \/ EvalFails

IpcSpec == IpcInit /\ [][IpcNext]_vars

-----------------------------------------------------------------------------
(* PageTracker and the Tab handlers that drive it.  A page id is the URL of  *)
(* the page: archive.upsertPage is insert-or-update keyed by collection and  *)
(* URL.  A then-callback registered on a promise is a job; it is queued as a *)
(* microtask when the promise resolves, or at once if it already has.        *)

\* the URLs of full navigations, the titles webContents reports
TrackUrls == {PageA, PageB}
Titles == {"T1", "T2"}

\* the URLs an in-page navigation of the document at rootUrl can report
InPageUrls(rootUrl) == {rootUrl, Append(rootUrl, 1)}

Job(kind, tracker, promise, url, title, originalUrl) ==
    [kind |-> kind, tracker |-> tracker, promise |-> promise, url |-> url,
     title |-> title, originalUrl |-> originalUrl]

NewPromise(url) == [done |-> FALSE, url |-> url, waiters |-> <<>>]

\* promise.then(job): [promises, microtasks] afterwards
Then(ps, mq, p, job) ==
    IF ps[p].done
    THEN [promises |-> ps, microtasks |-> Append(mq, job)]
    ELSE [promises |-> [ps EXCEPT ![p].waiters = Append(@, job)],
          microtasks |-> mq]

\* an archive call as logged: live says whether the tracker that makes the
\* call is the tab's activePage at the time of the call; expected is the URL
\* of the tracker's latest navigation event when the update was requested
ArchiveCall(op, job, id) ==
    [op |-> op, tracker |-> job.tracker, id |-> id, title |-> job.title,
     originalUrl |-> job.originalUrl, expected |-> job.url,
     live |-> activePage = job.tracker]

(* did-navigate: Tab.handleNavigation and, when the navigation is to be      *)
(* recorded, the PageTracker constructor.  persisted stands for              *)
(* !urlBypassesPersister(url) && statusCode > 0                              *)
HandleNavigation ==
    /\ microtasks = <<>>
    /\ \E url \in TrackUrls, title \in Titles, persisted \in BOOLEAN :
         IF recording = "on" /\ persisted
         THEN /\ Len(trackers) < MaxTrackers
              /\ LET p == Len(promises) + 1
                     t == Len(trackers) + 1
                     job == Job("upsertPage", t, p, url, title, NoUrl)
                 IN /\ promises' = Append(promises, NewPromise(url))
                    /\ trackers' = Append(trackers,
                          [rootUrl |-> url, rootPageId |-> p,
                           currentPageId |-> p, lastUrl |-> url])
                    /\ activePage' = t
                    /\ IF collectionDone
                       THEN /\ microtasks' = Append(microtasks, job)
                            /\ UNCHANGED collectionWaiters
                       ELSE /\ collectionWaiters' =
                                  Append(collectionWaiters, job)
                            /\ UNCHANGED microtasks
              /\ UNCHANGED <<collectionDone, inArchive, archiveCalls,
                             pageEvents>>
         ELSE /\ activePage' = 0
              /\ UNCHANGED pageVars
    /\ UNCHANGED <<crawlVars, ipcVars>>

(* Tab.loadURL called through requestUpdate *)
TabLoadURL ==
    /\ microtasks = <<>>
    /\ \E url \in TrackUrls : tab' = LoadURL(tab, url)
    /\ activePage' = 0
    /\ UNCHANGED <<ipcVars, pageVars, configVars, takes, evalFailed,
                   redirects, status, allKnownPages, queue, stopping,
                   notifyStopped, tokens, timer, recording, pc, nextUrl,
                   stopPending, stopInCycle, stopInWait, stopResolved,
                   otherTakes, loaded, firstLoads, examined, pushed,
                   recStartCalls, recFinishCalls, startFailed>>

(* did-navigate-in-page: Tab.handleInPageNavigation and                      *)
(* PageTracker.trackInPageNavigation, which registers on rootPageId          *)
HandleInPageNavigation ==
    /\ microtasks = <<>>
    /\ pageEvents < MaxPageEvents
    /\ pageEvents' = pageEvents + 1
    /\ \E isMainFrame \in BOOLEAN, title \in Titles :
         IF recording = "on" /\ isMainFrame /\ activePage # 0
         THEN \E url \in InPageUrls(trackers[activePage].rootUrl) :
                LET t == activePage
                    r == Then(promises, microtasks, trackers[t].rootPageId,
                              Job("inPage", t, 0, url, title, NoUrl))
                IN /\ promises' = r.promises
                   /\ microtasks' = r.microtasks
                   /\ trackers' = [trackers EXCEPT ![t].lastUrl = url]
         ELSE UNCHANGED <<trackers, promises, microtasks>>
    /\ UNCHANGED <<crawlVars, ipcVars, activePage, collectionDone,
                   collectionWaiters, inArchive, archiveCalls>>

(* page-title-updated: Tab.handleTitleUpdated and                            *)
(* PageTracker.trackTitleChange, which registers on the promise that         *)
(* currentPageId holds when the event is handled                             *)
HandleTitleUpdated ==
    /\ microtasks = <<>>
    /\ pageEvents < MaxPageEvents
    /\ pageEvents' = pageEvents + 1
    /\ \E title \in Titles :
         IF recording = "on" /\ activePage # 0
         THEN LET t == activePage
                  p == trackers[t].currentPageId
                  r == Then(promises, microtasks, p,
                            Job("setPageTitle", t, p, trackers[t].lastUrl,
                                title, NoUrl))
              IN /\ promises' = r.promises
                 /\ microtasks' = r.microtasks
         ELSE UNCHANGED <<promises, microtasks>>
    /\ UNCHANGED <<crawlVars, ipcVars, activePage, trackers, collectionDone,
                   collectionWaiters, inArchive, archiveCalls>>

(* recordingSession.collectionId resolves *)
ResolveCollection ==
    /\ microtasks = <<>>
    /\ ~collectionDone
    /\ collectionDone' = TRUE
    /\ microtasks' = collectionWaiters
    /\ collectionWaiters' = <<>>
    /\ UNCHANGED <<crawlVars, ipcVars, activePage, trackers, promises,
                   inArchive, archiveCalls, pageEvents>>

(* the archive answers an upsertPage call with the page id *)
ArchiveResponds ==
    /\ microtasks = <<>>
    /\ \E p \in inArchive :
         /\ inArchive' = inArchive \ {p}
         /\ promises' = [promises EXCEPT ![p].done = TRUE,
                                         ![p].waiters = <<>>]
         /\ microtasks' = promises[p].waiters
    /\ UNCHANGED <<crawlVars, ipcVars, activePage, trackers, collectionDone,
                   collectionWaiters, archiveCalls, pageEvents>>

(* the next then-callback runs: the upsertPage callbacks of the constructor  *)
(* and of trackInPageNavigation, the rootPageId callback of                  *)
(* trackInPageNavigation, the callback of trackTitleChange                   *)
RunMicrotask ==
    /\ microtasks # <<>>
    /\ LET job == Head(microtasks)
           rest == Tail(microtasks)
       IN CASE job.kind = "upsertPage" ->
                 /\ archiveCalls' = Append(archiveCalls,
                                      ArchiveCall("upsertPage", job, job.url))
                 /\ inArchive' = inArchive \cup {job.promise}
                 /\ microtasks' = rest
                 /\ UNCHANGED <<trackers, promises, collectionWaiters>>
            [] job.kind = "inPage" ->
                 LET p == Len(promises) + 1
                     t == job.tracker
                     upsert == Job("upsertPage", t, p, job.url, job.title,
                                   IF job.url = trackers[t].rootUrl
                                   THEN NoUrl ELSE trackers[t].rootUrl)
                 IN /\ promises' = Append(promises, NewPromise(job.url))
                    /\ trackers' = [trackers EXCEPT ![t].currentPageId = p]
                    /\ IF collectionDone
                       THEN /\ microtasks' = Append(rest, upsert)
                            /\ UNCHANGED collectionWaiters
                       ELSE /\ collectionWaiters' =
                                  Append(collectionWaiters, upsert)
                            /\ microtasks' = rest
                    /\ UNCHANGED <<inArchive, archiveCalls>>
            [] job.kind = "setPageTitle" ->
                 /\ archiveCalls' = Append(archiveCalls,
                                      ArchiveCall("setPageTitle", job,
                                                  promises[job.promise].url))
                 /\ microtasks' = rest
                 /\ UNCHANGED <<trackers, promises, collectionWaiters,
                                inArchive>>
    /\ UNCHANGED <<crawlVars, ipcVars, activePage, collectionDone,
                   pageEvents>>

TrackInit ==
    /\ Init
    /\ activeTab
    /\ config = [firstPage |-> PageA, dryRun |-> FALSE]
    /\ site = [p \in InScopePages |-> <<PageA, PageS>>]
    /\ tokens = Capacity
    /\ tab.url = PageA

TrackNext ==
    \/ HandleNavigation
    \/ TabLoadURL
    \/ HandleInPageNavigation
    \/ HandleTitleUpdated
    \/ ResolveCollection
    \/ ArchiveResponds
    \/ RunMicrotask

TrackSpec == TrackInit /\ [][TrackNext]_vars

-----------------------------------------------------------------------------
(* Helpers of the properties *)
Range(seq) == {seq[i] : i \in 1..Len(seq)}

\* the in-scope pages reachable from the pages of S through in-scope links
RECURSIVE Reach(_)
Reach(S) ==
    LET more == S \cup {l \in InScopePages :
                          \E p \in S : l \in Range(FilterRoots(site[p]))}
    IN IF more = S THEN S ELSE Reach(more)

ReachablePages == Reach({config.firstPage})

AllowedTransitions == { <<"initialized", "running">>,
                        <<"running", "finished">>,
                        <<"running", "canceled">> }

-----------------------------------------------------------------------------
(* C1: status.state only changes along initialized -> running -> finished or *)
(* initialized -> running -> canceled: finished and canceled are never left  *)
(* and running is entered from initialized only.                             *)
C1_StateTransitions ==
    [][status'.state # status.state
         => <<status.state, status'.state>> \in AllowedTransitions]_vars

(* C2: the completion of a stop() called while the cycle is in flight         *)
(* resolves only after the cycle has exited: never while the cycle waits for *)
(* a page load, examines a page or waits for rate-limit admission.           *)
C2_StopResolvesAfterCycleExit ==
    (stopInCycle /\ stopResolved > 0) => pc \notin CyclePcs

(* C3: after a stop() called while the runner waits for a page load, the      *)
(* runner never calls loadURL for a URL taken from the queue.                *)
C3_NoLoadAfterStop ==
    [][stopInWait => loaded' = loaded]_vars

(* C4: when the link-extraction evaluation rejects, the page counts as having *)
(* no links: queue and known pages are unchanged, the cycle goes on to       *)
(* loadNextPage and start() does not fail.                                   *)
C4_EvalFailureContinues ==
    [][(evalFailed' /\ ~evalFailed)
         => /\ pc' = "loadNext"
            /\ queue' = queue
            /\ allKnownPages' = allKnownPages
            /\ ~startFailed']_vars

(* C5: on a finite site without redirects, firstPage in scope, every load     *)
(* settling and no stop(), the run eventually is finished with every         *)
(* reachable in-scope page examined exactly once, every reachable page but   *)
(* firstPage loaded from the queue exactly once (firstPage at most once, by  *)
(* start()), and pagesVisited = the number of those pages = 1 + the number   *)
(* of URLs ever enqueued.                                                    *)
C5_Final ==
    /\ status.state = "finished"
    /\ Range(examined) = ReachablePages
    /\ Len(examined) = Cardinality(ReachablePages)
    /\ Range(loaded) = ReachablePages \ {config.firstPage}
    /\ Len(loaded) = Cardinality(ReachablePages) - 1
    /\ firstLoads <= 1
    /\ status.pagesVisited = Cardinality(ReachablePages)
    /\ status.pagesVisited = 1 + Len(pushed)

C5_CrawlCompletes == <>C5_Final

C5_Witness ==
    /\ C5_Final
    /\ pc = "done"
    /\ status.pagesVisited = 3
    /\ firstLoads = 1

(* C6: every URL in the queue starts with one of config.rootUrls, and so does *)
(* every URL the cycle takes from the queue and passes to loadURL.           *)
C6_QueueInScope ==
    /\ \A i \in 1..Len(queue) : KnownRoot(queue[i])
    /\ \A i \in 1..Len(loaded) : KnownRoot(loaded[i])
    /\ pc \in {"rateDelay", "navigate"} => KnownRoot(nextUrl)

\* a page listing an out-of-scope link was evaluated and the crawl went on
C6_Witness ==
    /\ Len(examined) >= 2
    /\ Len(loaded) >= 1
    /\ KnownRoot(examined[1])
    /\ \E l \in Range(site[examined[1]]) : ~KnownRoot(l)

(* C7: with dryRun neither startRecordingSession nor finishRecordingSession   *)
(* is ever called, however the run ends.                                     *)
C7_DryRunNoRecordingCalls ==
    config.dryRun => (recStartCalls = 0 /\ recFinishCalls = 0)

C7_Witness ==
    /\ config.dryRun
    /\ recording = "off"
    /\ pc = "done"
    /\ Len(loaded) >= 2

(* C8: without dryRun no page load issued by the runner is in flight while a  *)
(* recording-session start or stop transition is in progress.                *)
C8_NoLoadDuringRecordingTransition ==
    ~config.dryRun => ~(tab.loading /\ recording \in {"starting", "finishing"})

(* C9: without dryRun pagesVisited is incremented only while the recording    *)
(* session is active, after startRecordingSession resolved and before        *)
(* finishRecordingSession is called; finishRecordingSession is called only   *)
(* once the advance-queue cycle has terminated.                              *)
C9_VisitsOnlyWhileRecording ==
    [][~config.dryRun =>
         /\ (status'.pagesVisited > status.pagesVisited
               => recording = "on" /\ recFinishCalls = 0)
         /\ (recFinishCalls' > recFinishCalls
               => pc = "finishRec"
                  /\ (stopping \/ status.state = "finished"))]_vars

C9_Witness ==
    /\ ~config.dryRun
    /\ recStartCalls = 1
    /\ recFinishCalls = 1
    /\ status.pagesVisited >= 2

\* request a was produced by the page before request b
Before(a, b) == a.gen < b.gen \/ (a.gen = b.gen /\ a.n < b.n)

(* C10: within one polling loop requests are handled one at a time in the    *)
(* order the page produced them: at most one evaluation or handler is        *)
(* outstanding, the next advance-queue evaluation is issued only once the    *)
(* handler of the current request has settled, and it carries the response   *)
(* to that request.                                                          *)
C10_OneAtATime ==
    \A l \in 1..Len(loops) :
        LET loop == loops[l] IN
        /\ Len(loop.inFlight) + Cardinality(loop.pending) <= 1
        /\ Len(loop.evals) = Len(loop.handled) + 1 - Cardinality(loop.pending)
        /\ loop.evals[1] = Null
        /\ \A i \in 2..Len(loop.evals) :
              loop.evals[i] # Null /\ loop.evals[i].req = loop.handled[i - 1]
        /\ \A i, j \in 1..Len(loop.handled) :
              i < j => Before(loop.handled[i], loop.handled[j])
        /\ loop.pending \subseteq
              (IF loop.handled = <<>> THEN {}
               ELSE {loop.handled[Len(loop.handled)]})

\* a loop took two requests through a handler, one succeeding, one failing
C10_Witness ==
    \E l \in 1..Len(loops) :
        /\ Len(loops[l].handled) = 2
        /\ Len(loops[l].evals) = 3
        /\ loops[l].evals[2].kind = "data"
        /\ loops[l].evals[3].kind = "error"
        /\ loops[l].evals[3].payload = "failure"

-----------------------------------------------------------------------------
\* the requests of a loop that found a handler registered, in arrival order
Dispatchable(loop) ==
    LET FoundHandler(r) == \E i \in 1..Len(loop.handled) :
                              loop.handled[i] = r /\ loop.outcome[i] # "none"
    IN SelectSeq(loop.handled, FoundHandler)

\* C11: a loop that received n requests and then null has issued exactly n+1
\* evaluations, the first with payload null and each later one carrying the
\* response to the request before it; each request that found a handler was
\* dispatched to it exactly once, in order; null caused no dispatch and no
\* further evaluation, and nothing of the loop is left in flight.
C11_ScriptedRun ==
    \A l \in 1..Len(loops) :
        LET loop == loops[l]
            n == Len(loop.handled)
        IN loop.gotNull =>
             /\ loop.inFlight = <<>>
             /\ loop.pending = {}
             /\ Len(loop.evals) = n + 1
             /\ loop.evals[1] = Null
             /\ \A i \in 2..(n + 1) :
                   /\ loop.evals[i].kind \in {"data", "error"}
                   /\ loop.evals[i].req = loop.handled[i - 1]
             /\ loop.dispatched = Dispatchable(loop)
             /\ \A i, j \in 1..Len(loop.dispatched) :
                   i # j => loop.dispatched[i] # loop.dispatched[j]

C11_Witness ==
    \E l \in 1..Len(loops) :
        /\ loops[l].gotNull
        /\ Len(loops[l].handled) = 2
        /\ Len(loops[l].dispatched) = 2
        /\ Len(loops[l].evals) = 3

\* the response the loop owes to a request with the given outcome
ExpectedResponse(request, outcome) ==
    CASE outcome = "ok"   -> DataResponse(request)
      [] outcome = "fail" -> ErrorResponse(request, "failure")
      [] outcome = "none" -> ErrorResponse(request, "no IPC handler")

\* C12: every request received is answered by exactly one evaluation, issued
\* once its handler has settled: {data} when the handler succeeded, {error}
\* when it failed, {error: "no IPC handler"} when none was registered; until
\* the handler settles the request is pending and unanswered.
C12_OneResponsePerRequest ==
    \A l \in 1..Len(loops) :
        LET loop == loops[l] IN
        /\ Len(loop.outcome) = Len(loop.handled)
        /\ \A i \in 1..Len(loop.handled) :
              LET request == loop.handled[i]
                  answers == {k \in 1..Len(loop.evals) :
                                /\ loop.evals[k] # Null
                                /\ loop.evals[k].req = request}
              IN IF loop.outcome[i] = "pending"
                 THEN request \in loop.pending /\ answers = {}
                 ELSE /\ answers = {i + 1}
                      /\ loop.evals[i + 1] =
                            ExpectedResponse(request, loop.outcome[i])

C12_Witness ==
    \E l \in 1..Len(loops) :
        /\ loops[l].outcome = <<"none", "fail">>
        /\ Len(loops[l].evals) = 3
        /\ loops[l].evals[2].payload = "no IPC handler"
        /\ loops[l].evals[3].payload = "failure"

\* C13: a loop that has been superseded by a later loop on the tab while one
\* of its requests was still with the handler issues no further advanceQueue
\* evaluation.
C13_SupersededLoopDiscarded ==
    [][\A l \in 1..Len(loops) :
          (l < Len(loops) /\ loops[l].pending # {})
             => loops'[l].evals = loops[l].evals]_vars

-----------------------------------------------------------------------------
\* C15: the start() call that finds no activeTab fails in the call itself
\* and changes nothing: status.state is not set to "running", the promise
\* chain is never entered, no loadURL is issued, no recording session is
\* started, and queue and allKnownPages stay as they were.
C15_StartWithoutTabMutatesNothing ==
    /\ [](~activeTab
            => /\ pc = "init"
               /\ status.state # "running"
               /\ ~tab.loading
               /\ loaded = <<>> /\ firstLoads = 0
               /\ recStartCalls = 0 /\ recording \in {"off", "on"}
               /\ queue = <<>> /\ allKnownPages = {})
    /\ [][(~activeTab /\ ~startFailed /\ startFailed')
            => UNCHANGED <<status, tab, recording, recStartCalls, queue,
                           allKnownPages, loaded, firstLoads, pc, stopping,
                           tokens>>]_vars

C15_Witness == ~activeTab /\ startFailed /\ status.state = "initialized"

NoDuplicates(seq) == \A i, j \in 1..Len(seq) : i # j => seq[i] # seq[j]

\* C16: every queued URL is in allKnownPages, no URL is pushed twice and none
\* is taken from the queue and loaded twice, and allKnownPages never loses
\* an element.
C16_QueueKnownNoDuplicates ==
    /\ [](/\ Range(queue) \subseteq allKnownPages
          /\ NoDuplicates(pushed)
          /\ NoDuplicates(loaded)
          /\ NoDuplicates(queue))
    /\ [][allKnownPages \subseteq allKnownPages']_vars

C16_Witness ==
    /\ \E p \in DOMAIN site : site[p] = <<PageB, PageC, PageB>>
    /\ pushed = <<PageB, PageC>>
    /\ loaded = <<PageB, PageC>>

\* C17: config.firstPage is never pushed onto the queue.
C17_FirstPageNeverEnqueued == config.firstPage \notin Range(pushed)

\* C18: the frontier loadURL calls never outnumber the successful
\* takeTokens(1) calls of rateLimit; the callback that calls loadURL is reached
\* only from the rateLimit callback that found hasTokens(1) true and took
\* exactly one token in the same step, and each take pays for one loadURL.
C18_TakeBeforeEveryLoad ==
    /\ [](/\ Len(loaded) <= takes
          /\ takes = Len(loaded) + (IF pc = "navigate" THEN 1 ELSE 0))
    /\ [][/\ (pc' = "navigate" /\ pc # "navigate")
               => /\ pc = "rateDelay" /\ timer = 0
                  /\ HasTokens(1)
                  /\ tokens' = tokens - 1
          /\ (pc = "rateDelay" /\ pc' = "rateDelay" /\ timer = 0
                /\ timer' > 0)
               => ~HasTokens(1) /\ tokens' = tokens
          /\ Len(loaded') > Len(loaded) => pc = "navigate"]_vars

C18_Witness ==
    /\ otherTakes = 1
    /\ takes = 1
    /\ Len(loaded) = 1
    /\ tokens = 0

\* C19: examinePage on a settled URL outside every root counts the page and
\* reports, extracts no links, leaves queue and allKnownPages unchanged, and
\* the cycle goes on with loadNextPage.
C19_OutOfScopePageCountedOnly ==
    [][(pc = "examine" /\ pc' # "examine" /\ ~KnownRoot(tab.url))
          => /\ status'.pagesVisited = status.pagesVisited + 1
             /\ status'.pagesRemaining = Len(queue)
             /\ status'.state = status.state
             /\ pc' = "loadNext"
             /\ UNCHANGED <<queue, allKnownPages, pushed>>]_vars

C19_Witness ==
    /\ pc = "loadNext"
    /\ Len(examined) = 2
    /\ ~KnownRoot(examined[2])
    /\ status.pagesVisited = 2

-----------------------------------------------------------------------------
\* C14: every setPageTitle call sets the title of the page record of the
\* tracker's latest navigation event before the title event: the record of
\* the in-page navigation if there was one, the root page otherwise.
C14_TitleFollowsInPageNavigation ==
    \A i \in 1..Len(archiveCalls) :
        archiveCalls[i].op = "setPageTitle"
           => archiveCalls[i].id = archiveCalls[i].expected

\* C20: no upsertPage or setPageTitle call is made by a PageTracker that is
\* no longer the tab's activePage.
C20_SupersededUpdatesAbandoned ==
    \A i \in 1..Len(archiveCalls) : archiveCalls[i].live

====
